---- MODULE Spec2Model ----
(***************************************************************************)
(* Fake-quantize op for the per-tensor affine scheme                       *)
(* (aten/src/ATen/native/quantized/cuda/fake_quantize_per_tensor_affine.cu)*)
(*                                                                         *)
(* One call of fake_quantize_per_tensor_affine_cuda (forward) or of        *)
(* fake_quantize_per_tensor_affine_backward_cuda (backward) is a sequence  *)
(* of steps, one per statement of the function body.  Tensors live in a    *)
(* small heap `mem` (tensor id -> elements) so that "returns X itself" and *)
(* "returns a new tensor" are different states.                            *)
(*                                                                         *)
(* Floating-point values are modelled as extended rationals: a finite      *)
(* value is an exact fraction n/d in lowest terms, and +inf, -inf and NaN  *)
(* follow the IEEE-754 rules.  The finite inputs are small dyadic numbers  *)
(* and the finite scales are powers of two, so every float operation the   *)
(* kernels perform on them is exact in 32-bit precision and the fractions  *)
(* are the values the device computes.                                     *)
(***************************************************************************)
EXTENDS Integers, Sequences, FiniteSets, TLC

\* ------------------------------------------------------------------------
\* Bounds of the model
\* ------------------------------------------------------------------------
MaxLen == 2

\* ------------------------------------------------------------------------
\* Floating-point values
\* ------------------------------------------------------------------------
RECURSIVE GCD(_, _)
GCD(a, b) == IF b = 0 THEN a ELSE GCD(b, a % b)

Abs(n) == IF n < 0 THEN -n ELSE n

Sign(n) == IF n < 0 THEN -1 ELSE IF n > 0 THEN 1 ELSE 0

\* the fraction n/d (d # 0) in lowest terms with a positive denominator
Rat(n, d) ==
  LET g == GCD(Abs(n), Abs(d))
      s == IF d < 0 THEN -1 ELSE 1
  IN  [k |-> "fin", n |-> (s * n) \div g, d |-> Abs(d) \div g]

NaN == [k |-> "nan", n |-> 0, d |-> 1]

PInf == [k |-> "pinf", n |-> 0, d |-> 1]

NInf == [k |-> "ninf", n |-> 0, d |-> 1]

\* an element of a tensor made by empty_like that nothing has written yet
Uninit == [k |-> "uninit", n |-> 0, d |-> 1]

\* conversion of an int64 to float
FromInt(i) == Rat(i, 1)

IsNaN(a) == a.k = "nan"

IsInf(a) == a.k \in {"pinf", "ninf"}

IsFin(a) == a.k = "fin"

\* -1, 0 or 1 for a value that is not NaN
SignOf(a) == IF a.k = "pinf" THEN 1 ELSE IF a.k = "ninf" THEN -1 ELSE Sign(a.n)

Inf(s) == IF s > 0 THEN PInf ELSE NInf

\* a * b
FMul(a, b) ==
  IF IsNaN(a) \/ IsNaN(b) THEN NaN
  ELSE IF IsInf(a) \/ IsInf(b)
       THEN IF SignOf(a) * SignOf(b) = 0 THEN NaN ELSE Inf(SignOf(a) * SignOf(b))
       ELSE Rat(a.n * b.n, a.d * b.d)

\* a + b
FAdd(a, b) ==
  IF IsNaN(a) \/ IsNaN(b) THEN NaN
  ELSE IF IsInf(a) /\ IsInf(b) THEN (IF a = b THEN a ELSE NaN)
  ELSE IF IsInf(a) THEN a
  ELSE IF IsInf(b) THEN b
  ELSE Rat(a.n * b.d + b.n * a.d, a.d * b.d)

FNeg(a) ==
  IF IsNaN(a) THEN NaN
  ELSE IF IsInf(a) THEN Inf(-SignOf(a))
  ELSE Rat(-a.n, a.d)

\* a - b
FSub(a, b) == FAdd(a, FNeg(b))

\* a / b (a zero divisor is +0)
FDiv(a, b) ==
  IF IsNaN(a) \/ IsNaN(b) THEN NaN
  ELSE IF IsInf(a) THEN (IF IsInf(b) THEN NaN
                         ELSE Inf(SignOf(a) * (IF SignOf(b) < 0 THEN -1 ELSE 1)))
  ELSE IF IsInf(b) THEN Rat(0, 1)
  ELSE IF b.n = 0 THEN (IF a.n = 0 THEN NaN ELSE Inf(Sign(a.n)))
  ELSE Rat(a.n * b.d, a.d * b.n)

\* a < b; false when either is NaN
FLess(a, b) ==
  IF IsNaN(a) \/ IsNaN(b) THEN FALSE
  ELSE IF a.k = "ninf" THEN b.k # "ninf"
  ELSE IF a.k = "pinf" THEN FALSE
  ELSE IF b.k = "pinf" THEN TRUE
  ELSE IF b.k = "ninf" THEN FALSE
  ELSE a.n * b.d < b.n * a.d

\* a <= b; false when either is NaN
FLeq(a, b) == ~IsNaN(a) /\ ~IsNaN(b) /\ (a = b \/ FLess(a, b))

\* a >= b; false when either is NaN
FGeq(a, b) == FLeq(b, a)

\* fmaxf: the larger argument; a NaN argument is ignored
fmaxf(a, b) ==
  IF IsNaN(a) THEN b ELSE IF IsNaN(b) THEN a ELSE IF FLess(a, b) THEN b ELSE a

\* fminf: the smaller argument; a NaN argument is ignored
fminf(a, b) ==
  IF IsNaN(a) THEN b ELSE IF IsNaN(b) THEN a ELSE IF FLess(b, a) THEN b ELSE a

\* std::round: nearest integer, halfway cases away from zero
round(a) ==
  IF ~IsFin(a) THEN a
  ELSE Rat(Sign(a.n) * ((2 * Abs(a.n) + a.d) \div (2 * a.d)), 1)

\* float(bool)
FromBool(b) == IF b THEN Rat(1, 1) ELSE Rat(0, 1)

\* ------------------------------------------------------------------------
\* The per-element functions of the two kernels
\* ------------------------------------------------------------------------
\* float inv_scale = 1.0f / scale
InvScale(sc) == FDiv(Rat(1, 1), sc)

\* round(input_val * inv_scale + zero_point)
QuantIndex(input_val, inv, zp) == round(FAdd(FMul(input_val, inv), FromInt(zp)))

\* mutant: the lower clamp is missing
Clamp_UpperOnly(v, qmin, qmax) == fminf(FromInt(qmax), v)

\* fminf(quant_max, fmaxf(quant_min, v))
Clamp(v, qmin, qmax) == fminf(FromInt(qmax), fmaxf(FromInt(qmin), v))

\* mutant: dequantization forgets to subtract zero_point
Quantize_NoOffset(input_val, inv, sc, zp, qmin, qmax) ==
  FMul(Clamp(QuantIndex(input_val, inv, zp), qmin, qmax), sc)

\* the forward lambda: result_val for one input_val
Quantize(input_val, inv, sc, zp, qmin, qmax) ==
  FMul(FSub(Clamp(QuantIndex(input_val, inv, zp), qmin, qmax), FromInt(zp)), sc)

\* mutant: the lower end of the range is excluded from the mask
MaskVal_Strict(input_val, inv, zp, qmin, qmax) ==
  LET Xq == QuantIndex(input_val, inv, zp)
  IN  FromBool(FLess(FromInt(qmin), Xq) /\ FLeq(Xq, FromInt(qmax)))

\* the backward lambda: the mask value for one input_val
MaskVal(input_val, inv, zp, qmin, qmax) ==
  LET Xq == QuantIndex(input_val, inv, zp)
  IN  FromBool(FGeq(Xq, FromInt(qmin)) /\ FLeq(Xq, FromInt(qmax)))

\* mask * dY, elementwise
MulTensors(a, b) == [i \in 1..Len(a) |-> FMul(a[i], b[i])]

\* ------------------------------------------------------------------------
\* The checks of the two functions
\* ------------------------------------------------------------------------
\* quant_min > quant_max
BadRange(qmin, qmax) == qmin > qmax

\* zero_point < 0
BadZeroPoint(zp) == zp < 0

\* quant_delay < 0
BadDelay(qd) == qd < 0

\* mutant: iter is checked whatever quant_delay is
BadIter_NoDelayGuard(qd, it) == it < 0

\* quant_delay != 0 && iter < 0
BadIter(qd, it) == qd # 0 /\ it < 0

\* mutant: warm-up ends one iteration early
WarmUp_StrictIter(qd, it) == qd > 0 /\ it < qd

\* mutant: warm-up is taken although quant_delay is 0
WarmUp_NoDelayGuard(qd, it) == it <= qd

\* quant_delay > 0 && iter <= quant_delay
WarmUp(qd, it) == qd > 0 /\ it <= qd

\* X.numel() <= 0
EmptyInput(x) == Len(x) <= 0

\* X.numel() != dY.numel()
SizeMismatch(x, dy) == Len(x) # Len(dy)

\* ------------------------------------------------------------------------
\* Inputs
\* ------------------------------------------------------------------------
\* element values of the input tensor
XVals == {Rat(-1, 1), Rat(1, 4), Rat(3, 1)}

\* element values of the incoming gradient
GVals == {Rat(0, 1), Rat(1, 1), PInf}

\* scales: two exact powers of two and +infinity
Scales == {Rat(1, 2), Rat(2, 1), PInf}

ZeroPoints == {-1, 1}

QuantMins == {0, 1}

QuantMaxs == {0, 2}

Delays == {-1, 0, 1}

Iters == {-1, 0, 1, 2}

\* the tensors of at most MaxLen elements over a value set
Tensors(S) == UNION {[1..n -> S] : n \in 0..MaxLen}

\* ------------------------------------------------------------------------
\* State
\* ------------------------------------------------------------------------
VARIABLES
  op,           \* "forward" or "backward": the function called
  is_cuda,      \* self.is_cuda() / X.is_cuda()
  is_float,     \* scalar_type() == ScalarType::Float
  mem,          \* the tensors that exist: tensor id -> its elements
  scale, zero_point, quant_min, quant_max, quant_delay, iter,
  pc,           \* the statement the call is at; "returned" / "threw" after it
  Y,            \* forward: the id of Y (0 before it is allocated)
  dX,           \* backward: the id dX refers to (0 before it is allocated)
  mask,         \* backward: the id of mask (0 before it is allocated)
  inv_scale,    \* the local inv_scale
  ret,          \* the id of the returned tensor (0: nothing returned)
  err,          \* the error thrown ("none": no error)
  work,         \* the allocations, copies and kernels done so far
  path,         \* the branch the call returned from
  in0,          \* the argument tensors as they were at call entry
  prev,         \* the outcome of the preceding call (a caller calling twice)
  calls         \* how many calls the caller has made

args == <<op, is_cuda, is_float, scale, zero_point, quant_min, quant_max, quant_delay>>

locals == <<Y, dX, mask, inv_scale>>

caller == <<in0, prev, calls>>

vars == <<args, iter, mem, pc, locals, ret, err, work, path, caller>>

\* tensor ids of the arguments: self (forward) or X (backward), and dY
XId == 1

dYId == 2

NoTensor == 0

\* the id a newly allocated tensor gets
NewId(m) == Cardinality(DOMAIN m) + 1

NoPrev == [kind |-> "none", err |-> "none", out |-> <<>>, path |-> "none"]

\* a call is entered with its arguments bound and nothing else done
Entry(o) == IF o = "forward" THEN "f38" ELSE "b104"

Init ==
  /\ op \in {"forward", "backward"}
  /\ is_cuda \in BOOLEAN
  /\ is_float \in BOOLEAN
  /\ \E x \in Tensors(XVals) :
       IF op = "forward"
       THEN mem = (XId :> x)
       ELSE \E dy \in Tensors(GVals) : mem = (XId :> x) @@ (dYId :> dy)
  /\ scale \in Scales
  /\ zero_point \in ZeroPoints
  /\ quant_min \in QuantMins
  /\ quant_max \in QuantMaxs
  /\ quant_delay \in Delays
  /\ iter \in Iters
  /\ pc = Entry(op)
  /\ Y = NoTensor /\ dX = NoTensor /\ mask = NoTensor
  /\ inv_scale = Rat(0, 1)
  /\ ret = NoTensor
  /\ err = "none"
  /\ work = {}
  /\ path = "none"
  /\ in0 = mem
  /\ prev = NoPrev
  /\ calls = 1

\* throw: the call ends with an error and returns nothing
Throw(e) ==
  /\ pc' = "threw"
  /\ err' = e
  /\ UNCHANGED <<args, iter, mem, locals, ret, work, path, caller>>

\* a check that passed: on to the next statement
Goto(l) ==
  /\ pc' = l
  /\ UNCHANGED <<args, iter, mem, locals, ret, err, work, path, caller>>

\* a check: throw e when cond holds, else go on at l
Check(cond, e, l) == IF cond THEN Throw(e) ELSE Goto(l)

\* return tensor t from branch p
Return(t, p) ==
  /\ pc' = "returned"
  /\ ret' = t
  /\ path' = p

\* ------------------------------------------------------------------------
\* fake_quantize_per_tensor_affine_cuda
\* ------------------------------------------------------------------------
\* TORCH_CHECK(self.is_cuda())
F_CheckCuda == pc = "f38" /\ Check(~is_cuda, "UnsupportedDevice", "f39")

\* TORCH_CHECK(self.scalar_type() == ScalarType::Float)
F_CheckDtype == pc = "f39" /\ Check(~is_float, "UnsupportedDtype", "f40")

F_CheckRange ==
  pc = "f40" /\ Check(BadRange(quant_min, quant_max), "InvalidRange", "f43")

F_CheckZeroPoint ==
  pc = "f43" /\ Check(BadZeroPoint(zero_point), "InvalidZeroPoint", "f46")

F_CheckDelay ==
  pc = "f46" /\ Check(BadDelay(quant_delay), "InvalidDelay", "f50")

\* mutant: Y is allocated above the check of iter
F_CheckIter_AfterAlloc ==
  /\ pc = "f50"
  /\ IF BadIter(quant_delay, iter)
     THEN /\ Y' = NewId(mem)
          /\ mem' = mem @@ (NewId(mem) :> [i \in 1..Len(mem[XId]) |-> Uninit])
          /\ work' = work \cup {"alloc"}
          /\ pc' = "threw"
          /\ err' = "InvalidIter"
          /\ UNCHANGED <<args, iter, dX, mask, inv_scale, ret, path, caller>>
     ELSE Goto("f55")

F_CheckIter ==
  pc = "f50" /\ Check(BadIter(quant_delay, iter), "InvalidIter", "f55")

\* auto Y = at::empty_like(self)
F_Alloc ==
  /\ pc = "f55"
  /\ Y' = NewId(mem)
  /\ mem' = mem @@ (NewId(mem) :> [i \in 1..Len(mem[XId]) |-> Uninit])
  /\ work' = work \cup {"alloc"}
  /\ pc' = "f57"
  /\ UNCHANGED <<args, iter, dX, mask, inv_scale, ret, err, path, caller>>

\* if (quant_delay > 0 && iter <= quant_delay) { Y.copy_(self); return Y; }
F_WarmUp ==
  /\ pc = "f57"
  /\ IF WarmUp(quant_delay, iter)
     THEN /\ mem' = [mem EXCEPT ![Y] = mem[XId]]
          /\ work' = work \cup {"copy"}
          /\ Return(Y, "warmup")
     ELSE /\ pc' = "f62"
          /\ UNCHANGED <<mem, work, ret, path>>
  /\ UNCHANGED <<args, iter, locals, err, caller>>

\* inv_scale = 1.0f / scale; CUDA_tensor_apply2(self, Y, ...); return Y
F_Apply ==
  /\ pc = "f62"
  /\ inv_scale' = InvScale(scale)
  /\ mem' = [mem EXCEPT ![Y] =
              [i \in 1..Len(mem[XId]) |->
                 Quantize(mem[XId][i], inv_scale', scale, zero_point,
                          quant_min, quant_max)]]
  /\ work' = work \cup {"apply"}
  /\ Return(Y, "quantize")
  /\ UNCHANGED <<args, iter, Y, dX, mask, err, caller>>

Forward ==
  \/ F_CheckCuda \/ F_CheckDtype \/ F_CheckRange \/ F_CheckZeroPoint
  \/ F_CheckDelay \/ F_CheckIter \/ F_Alloc \/ F_WarmUp \/ F_Apply

\* ------------------------------------------------------------------------
\* fake_quantize_per_tensor_affine_backward_cuda
\* ------------------------------------------------------------------------
\* TORCH_CHECK(X.is_cuda())
B_CheckCuda == pc = "b104" /\ Check(~is_cuda, "UnsupportedDevice", "b105")

\* TORCH_CHECK(X.scalar_type() == ScalarType::Float)
B_CheckDtype == pc = "b105" /\ Check(~is_float, "UnsupportedDtype", "b106")

B_CheckRange ==
  pc = "b106" /\ Check(BadRange(quant_min, quant_max), "InvalidRange", "b109")

B_CheckZeroPoint ==
  pc = "b109" /\ Check(BadZeroPoint(zero_point), "InvalidZeroPoint", "b112")

B_CheckDelay ==
  pc = "b112" /\ Check(BadDelay(quant_delay), "InvalidDelay", "b115")

\* if (X.numel() <= 0) { return X; }
B_CheckEmpty ==
  /\ pc = "b115"
  /\ IF EmptyInput(mem[XId])
     THEN Return(XId, "empty")
     ELSE pc' = "b118" /\ UNCHANGED <<ret, path>>
  /\ UNCHANGED <<args, iter, mem, locals, err, work, caller>>

B_CheckSize ==
  pc = "b118" /\ Check(SizeMismatch(mem[XId], mem[dYId]), "ShapeMismatch", "b122")

B_CheckIter ==
  pc = "b122" /\ Check(BadIter(quant_delay, iter), "InvalidIter", "b127")

\* auto dX = at::zeros_like(dY)
B_Alloc ==
  /\ pc = "b127"
  /\ dX' = NewId(mem)
  /\ mem' = mem @@ (NewId(mem) :> [i \in 1..Len(mem[dYId]) |-> Rat(0, 1)])
  /\ work' = work \cup {"alloc"}
  /\ pc' = "b128"
  /\ UNCHANGED <<args, iter, Y, mask, inv_scale, ret, err, path, caller>>

\* if (quant_delay > 0 && iter <= quant_delay) { dX.copy_(dY); return dX; }
B_WarmUp ==
  /\ pc = "b128"
  /\ IF WarmUp(quant_delay, iter)
     THEN /\ mem' = [mem EXCEPT ![dX] = mem[dYId]]
          /\ work' = work \cup {"copy"}
          /\ Return(dX, "warmup")
     ELSE /\ pc' = "b133"
          /\ UNCHANGED <<mem, work, ret, path>>
  /\ UNCHANGED <<args, iter, locals, err, caller>>

\* inv_scale = 1.0f / scale; auto mask = at::empty_like(dY)
B_Mask ==
  /\ pc = "b133"
  /\ inv_scale' = InvScale(scale)
  /\ mask' = NewId(mem)
  /\ mem' = mem @@ (NewId(mem) :> [i \in 1..Len(mem[dYId]) |-> Uninit])
  /\ work' = work \cup {"alloc"}
  /\ pc' = "b135"
  /\ UNCHANGED <<args, iter, Y, dX, ret, err, path, caller>>

\* CUDA_tensor_apply2(X, mask, ...)
B_Apply ==
  /\ pc = "b135"
  /\ mem' = [mem EXCEPT ![mask] =
              [i \in 1..Len(mem[XId]) |->
                 MaskVal(mem[XId][i], inv_scale, zero_point, quant_min, quant_max)]]
  /\ work' = work \cup {"apply"}
  /\ pc' = "b144"
  /\ UNCHANGED <<args, iter, locals, ret, err, path, caller>>

\* dX = mask * dY; return dX
B_Mul ==
  /\ pc = "b144"
  /\ dX' = NewId(mem)
  /\ mem' = mem @@ (NewId(mem) :> MulTensors(mem[mask], mem[dYId]))
  /\ work' = work \cup {"mul"}
  /\ Return(NewId(mem), "quantize")
  /\ UNCHANGED <<args, iter, Y, mask, inv_scale, err, caller>>

Backward ==
  \/ B_CheckCuda \/ B_CheckDtype \/ B_CheckRange \/ B_CheckZeroPoint
  \/ B_CheckDelay \/ B_CheckEmpty \/ B_CheckSize \/ B_CheckIter
  \/ B_Alloc \/ B_WarmUp \/ B_Mask \/ B_Apply \/ B_Mul

Next == Forward \/ Backward

Spec == Init /\ [][Next]_vars

\* ------------------------------------------------------------------------
\* A caller that calls twice
\* ------------------------------------------------------------------------
\* what a finished call left: its error, the elements of the tensor it
\* returned and the branch it returned from
Outcome(kind) ==
  [kind |-> kind, err |-> err,
   out |-> IF ret # NoTensor THEN mem[ret] ELSE <<>>, path |-> path]

\* the caller enters the function again; m holds the argument tensors
Enter(m) ==
  /\ mem' = m
  /\ in0' = m
  /\ pc' = Entry(op)
  /\ Y' = NoTensor /\ dX' = NoTensor /\ mask' = NoTensor
  /\ inv_scale' = Rat(0, 1)
  /\ ret' = NoTensor
  /\ err' = "none"
  /\ work' = {}
  /\ path' = "none"
  /\ calls' = calls + 1

\* the same call again, with the same tensors and another iter
CallAgainIter ==
  /\ pc \in {"returned", "threw"}
  /\ calls = 1
  /\ \E it \in Iters \ {iter} : iter' = it
  /\ prev' = Outcome("iter")
  /\ Enter([i \in DOMAIN in0 |-> mem[i]])
  /\ UNCHANGED args

\* forward again on the tensor the first forward returned
CallAgainOutput ==
  /\ pc = "returned"
  /\ op = "forward"
  /\ calls = 1
  /\ prev' = Outcome("output")
  /\ Enter(XId :> mem[ret])
  /\ UNCHANGED <<args, iter>>

\* the two-call caller is exercised on supported tensors
InitAgain == Init /\ is_cuda /\ is_float

NextAgain == Next \/ CallAgainIter \/ CallAgainOutput

SpecAgain == InitAgain /\ [][NextAgain]_vars

\* ------------------------------------------------------------------------
\* Properties
\* ------------------------------------------------------------------------
Done == pc \in {"returned", "threw"}

Supported == is_cuda /\ is_float

\* the elements of the returned tensor
Out == mem[ret]

\* C1: a forward call on a supported tensor throws exactly when
\* quant_min > quant_max, zero_point < 0, quant_delay < 0, or quant_delay # 0
\* with iter < 0; the error it throws is the one of a condition that holds;
\* every other tuple returns, also with zero_point outside the range.
C1_ForwardFailsIffInvalid ==
  (op = "forward" /\ Supported /\ Done) =>
    /\ (pc = "threw") <=> \/ quant_min > quant_max
                          \/ zero_point < 0
                          \/ quant_delay < 0
                          \/ (quant_delay # 0 /\ iter < 0)
    /\ err \in {"none", "InvalidRange", "InvalidZeroPoint", "InvalidDelay", "InvalidIter"}
    /\ err = "InvalidRange" => quant_min > quant_max
    /\ err = "InvalidZeroPoint" => zero_point < 0
    /\ err = "InvalidDelay" => quant_delay < 0
    /\ err = "InvalidIter" => (quant_delay # 0 /\ iter < 0)

\* a forward call returned although zero_point is outside [quant_min, quant_max]
C1_Witness ==
  /\ op = "forward" /\ pc = "returned"
  /\ (zero_point < quant_min \/ zero_point > quant_max)

\* C2 (as claimed): a backward call with valid range, zero_point and
\* quant_delay whose X and dY differ in element count throws ShapeMismatch,
\* whatever the element count of X.
C2_MismatchAlwaysThrows ==
  ( /\ op = "backward" /\ Supported /\ Done
    /\ quant_min <= quant_max /\ zero_point >= 0 /\ quant_delay >= 0
    /\ Len(in0[XId]) # Len(in0[dYId]) )
  => (pc = "threw" /\ err = "ShapeMismatch")

\* C3 (as claimed): a backward call with valid range, zero_point and
\* quant_delay, quant_delay # 0 and iter < 0 throws InvalidIter, whatever the
\* tensors are.
C3_BackwardInvalidIter ==
  ( /\ op = "backward" /\ Supported /\ Done
    /\ quant_min <= quant_max /\ zero_point >= 0 /\ quant_delay >= 0
    /\ quant_delay # 0 /\ iter < 0 )
  => (pc = "threw" /\ err = "InvalidIter")

\* C4: a call that throws has allocated, copied and computed nothing: no
\* tensor exists besides the arguments and nothing is returned.
C4_ChecksBeforeWork ==
  (err # "none" \/ pc = "threw") =>
    /\ work = {}
    /\ DOMAIN mem = DOMAIN in0
    /\ ret = NoTensor

\* a backward call threw at its last check, the one on iter
C4_Witness == op = "backward" /\ pc = "threw" /\ err = "InvalidIter"

\* the warm-up window of the claim, with the other parameters valid
InWarmUpWindow ==
  /\ Supported
  /\ quant_min <= quant_max /\ zero_point >= 0
  /\ quant_delay > 0 /\ 0 <= iter /\ iter <= quant_delay

\* C5 (as claimed): in the warm-up window forward returns the elements of
\* its input and backward the elements of dY, for all tensors.
C5_WarmUpPassthroughAll ==
  (InWarmUpWindow /\ Done) =>
    /\ pc = "returned"
    /\ Out = (IF op = "forward" THEN in0[XId] ELSE in0[dYId])

\* C5 (amended): the same, for a backward call only when X and dY have the
\* same element count.
C5_WarmUpPassthrough ==
  ( /\ InWarmUpWindow /\ Done
    /\ (op = "backward" => Len(in0[XId]) = Len(in0[dYId])) )
  => /\ pc = "returned"
     /\ Out = (IF op = "forward" THEN in0[XId] ELSE in0[dYId])

\* a backward call returned dY's elements with iter = quant_delay
C5_Witness ==
  /\ op = "backward" /\ pc = "returned" /\ path = "warmup"
  /\ iter = quant_delay /\ Len(in0[dYId]) > 0 /\ Out = in0[dYId]

\* the second of two forward calls, run on the output of the first, both
\* with quant_delay = 0, has returned
Requantized ==
  calls = 2 /\ prev.kind = "output" /\ quant_delay = 0 /\ pc = "returned"

\* C6 (as claimed): forward(forward(x)) = forward(x) for all accepted
\* parameters with quant_delay = 0.
C6_IdempotentAll == Requantized => Out = prev.out

\* C6 (amended): forward(forward(x)) = forward(x) when, besides, scale is
\* finite.
C6_Idempotent == (Requantized /\ IsFin(scale)) => Out = prev.out

\* forward was run again on a non-empty output, with a finite scale
C6_Witness == Requantized /\ IsFin(scale) /\ Len(prev.out) > 0

\* the values (q - zero_point) * scale for the integers q of the range
QuantSet ==
  {FMul(FSub(FromInt(q), FromInt(zero_point)), scale) : q \in quant_min..quant_max}

\* C7 (as claimed): every element a forward call returns is
\* (q - zero_point) * scale for an integer q of [quant_min, quant_max].
C7_OutputInQuantSetAll ==
  (op = "forward" /\ pc = "returned") =>
    \A i \in 1..Len(Out) : Out[i] \in QuantSet

\* C7 (amended): the same outside warm-up (quant_delay = 0 or
\* iter > quant_delay).
C7_OutputInQuantSet ==
  (op = "forward" /\ pc = "returned" /\ (quant_delay = 0 \/ iter > quant_delay)) =>
    \A i \in 1..Len(Out) : Out[i] \in QuantSet

\* a forward call quantized a non-empty tensor
C7_Witness ==
  /\ op = "forward" /\ pc = "returned" /\ path = "quantize"
  /\ Len(Out) > 0 /\ Out # in0[XId]

\* round(x / scale + zero_point) is outside [quant_min, quant_max]
OutOfRange(x) ==
  LET q == round(FAdd(FDiv(x, scale), FromInt(zero_point)))
  IN  ~(FGeq(q, FromInt(quant_min)) /\ FLeq(q, FromInt(quant_max)))

\* a backward call outside warm-up has returned
BackwardQuantized ==
  /\ op = "backward" /\ pc = "returned"
  /\ (quant_delay = 0 \/ iter > quant_delay)

\* C8 (as claimed): outside warm-up the returned gradient is 0 at a position
\* exactly when round(x / scale + zero_point) is outside the range.
C8_MaskIffAll ==
  BackwardQuantized =>
    \A i \in 1..Len(Out) : (Out[i] = Rat(0, 1)) <=> OutOfRange(in0[XId][i])

\* C8 (amended): the same at the positions where dY is finite and not 0.
C8_MaskIff ==
  BackwardQuantized =>
    \A i \in 1..Len(Out) :
      (IsFin(in0[dYId][i]) /\ in0[dYId][i] # Rat(0, 1)) =>
        ((Out[i] = Rat(0, 1)) <=> OutOfRange(in0[XId][i]))

\* a backward call zeroed a non-zero gradient and passed another one
C8_Witness ==
  /\ BackwardQuantized /\ path = "quantize"
  /\ \E i, j \in 1..Len(Out) :
       /\ in0[dYId][i] = Rat(1, 1) /\ Out[i] = Rat(0, 1)
       /\ in0[dYId][j] = Rat(1, 1) /\ Out[j] = Rat(1, 1)

\* C9 (as claimed): a call that returns leaves its argument tensors as they
\* were and returns a tensor that is none of them, with as many elements as
\* the input.
C9_FreshOutput ==
  pc = "returned" =>
    /\ \A t \in DOMAIN in0 : mem[t] = in0[t]
    /\ ret \notin DOMAIN in0
    /\ Len(Out) = Len(in0[XId])

\* the second of two calls that differ in iter only, with quant_delay = 0,
\* has ended
IterChanged == calls = 2 /\ prev.kind = "iter" /\ quant_delay = 0 /\ Done

\* C10: with quant_delay = 0 two calls that differ in iter only end alike
\* (same error or same returned elements) and neither takes the warm-up
\* branch.
C10_IterIrrelevant ==
  IterChanged =>
    /\ Outcome("iter") = prev
    /\ path # "warmup"
    /\ prev.path # "warmup"

\* such a pair of calls returned, the second with a negative iter
C10_Witness == IterChanged /\ pc = "returned" /\ iter < 0 /\ Len(Out) > 0

====
